---- MODULE Spec2Model ----
(***************************************************************************)
(* Model of the ShopSavvy Go SDK client (package shopsavvy).               *)
(*                                                                         *)
(* Strings that the code inspects character by character (API keys) are    *)
(* sequences of one-character strings; strings that are only stored,       *)
(* compared or concatenated are TLA+ strings.  Durations are whole         *)
(* seconds.  A nil pointer / nil error is the record Nil.                  *)
(***************************************************************************)
EXTENDS Integers, Sequences, FiniteSets, TLC

VARIABLES
    args,          \* arguments of the NewClient call (Nil before the call)
    client,        \* *Client returned by NewClient (Nil: none / nil)
    err,           \* error returned by NewClient (Nil: none / nil)
    httpRequests,  \* outbound HTTP requests handed to the transport so far
    calls,         \* endpoint method invocations so far
    call,          \* the latest endpoint invocation and what it returned
    resp,          \* response handed to handleErrorResponse
    mapped,        \* error returned by handleErrorResponse
    closed,        \* Close has been called on the client
    inflight,      \* per goroutine: the endpoint call it is making
    roundTrip      \* a payload value, its JSON encoding and the decoding

vars == <<args, client, err, httpRequests, calls, call, resp, mapped,
          closed, inflight, roundTrip>>

Nil == [nil |-> TRUE]

(***************************************************************************)
(* Bounds                                                                  *)
(***************************************************************************)
MaxSuffixLen == 2
MaxOptions == 2
MaxCalls == 2
MaxIdentifiers == 2
MaxGoroutines == 2
\* the longest slice in a payload value
MaxElems == 2
\* the number of fields of a payload value that are not zero
MaxVaried == 2

(***************************************************************************)
(* Characters and API keys                                                 *)
(***************************************************************************)
Lower == {"a","b","c","d","e","f","g","h","i","j","k","l","m",
          "n","o","p","q","r","s","t","u","v","w","x","y","z"}
Upper == {"A","B","C","D","E","F","G","H","I","J","K","L","M",
          "N","O","P","Q","R","S","T","U","V","W","X","Y","Z"}
Digit == {"0","1","2","3","4","5","6","7","8","9"}

\* the character class [a-zA-Z0-9] of the key pattern
AlnumClass == Lower \cup Upper \cup Digit

Live == <<"l","i","v","e">>
Test == <<"t","e","s","t">>

\* the alternation (live|test) of the key pattern
EnvAlternation == {Live, Test}

\* the pattern with `*` in place of `+`: the suffix may be empty
MatchString_EmptySuffix(s) ==
    \E env \in EnvAlternation :
        LET head == <<"s","s","_">> \o env \o <<"_">>
        IN  /\ Len(s) >= Len(head)
            /\ SubSeq(s, 1, Len(head)) = head
            /\ \A i \in (Len(head) + 1)..Len(s) : s[i] \in AlnumClass

\* the pattern with the class [a-z0-9]: upper-case letters left out
MatchString_NoUpper(s) ==
    \E env \in EnvAlternation :
        LET head == <<"s","s","_">> \o env \o <<"_">>
        IN  /\ Len(s) >= Len(head) + 1
            /\ SubSeq(s, 1, Len(head)) = head
            /\ \A i \in (Len(head) + 1)..Len(s) : s[i] \in Lower \cup Digit

\* regexp.MatchString(`^ss_(live|test)_[a-zA-Z0-9]+$`, s)
MatchString(s) ==
    \E env \in EnvAlternation :
        LET head == <<"s","s","_">> \o env \o <<"_">>
        IN  /\ Len(s) >= Len(head) + 1
            /\ SubSeq(s, 1, Len(head)) = head
            /\ \A i \in (Len(head) + 1)..Len(s) : s[i] \in AlnumClass

\* The keys shown in the documentation
QuickStartKey ==
    <<"s","s","_","l","i","v","e","_","y","o","u","r","_",
      "a","p","i","_","k","e","y","_","h","e","r","e">>
TestingKey ==
    <<"s","s","_","t","e","s","t","_","y","o","u","r","_",
      "t","e","s","t","_","k","e","y","_","h","e","r","e">>

(***************************************************************************)
(* Config and options                                                      *)
(***************************************************************************)
DefaultBaseURL == "https://api.shopsavvy.com/v1"
DefaultTimeout == 30
Version == "1.0.1"

\* type Option func(*Config): a function that assigns a field of the Config.
\* WithBaseURL and WithTimeout are the constructors the package provides;
\* the type and Config's fields are exported, so a caller can also write an
\* option that assigns Config.APIKey.
WithBaseURL(baseURL) == [field |-> "BaseURL", value |-> baseURL]
WithTimeout(timeout) == [field |-> "Timeout", value |-> timeout]
CallerOption(apiKey) == [field |-> "APIKey", value |-> apiKey]

\* the option run on a copy of the Config: its assignment is lost
ApplyOption_OnCopy(option, config) == config

\* option(config)
ApplyOption(option, config) == [config EXCEPT ![option.field] = option.value]

\* for _, option := range options { option(config) }
RECURSIVE ApplyOptions(_, _)
ApplyOptions(options, config) ==
    IF options = <<>> THEN config
    ELSE ApplyOptions(Tail(options), ApplyOption(Head(options), config))

ErrKeyRequired ==
    [kind |-> "error",
     Message |-> "API key is required. Get one at https://shopsavvy.com/data"]
ErrKeyFormat ==
    [kind |-> "error",
     Message |-> "invalid API key format. API keys should start with ss_live_ or ss_test_"]

\* resty.New() leaves the retry count at its default; NewClient never sets it
RetryCount == 0

BearerPrefix == <<"B","e","a","r","e","r"," ">>

\* the resty client with the raw key as Authorization header
RestyClient_NoBearer(config) ==
    [BaseURL    |-> config.BaseURL,
     Timeout    |-> config.Timeout,
     Header     |-> [Authorization |-> config.APIKey,
                     ContentType   |-> "application/json",
                     UserAgent     |-> "ShopSavvy-Go-SDK/" \o Version],
     RetryCount |-> RetryCount]

\* the resty client with SetRetryCount(3) added to the chain
RestyClient_Retrying(config) ==
    [BaseURL    |-> config.BaseURL,
     Timeout    |-> config.Timeout,
     Header     |-> [Authorization |-> BearerPrefix \o config.APIKey,
                     ContentType   |-> "application/json",
                     UserAgent     |-> "ShopSavvy-Go-SDK/" \o Version],
     RetryCount |-> 3]

\* the resty client NewClient configures
RestyClient(config) ==
    [BaseURL    |-> config.BaseURL,
     Timeout    |-> config.Timeout,
     Header     |-> [Authorization |-> BearerPrefix \o config.APIKey,
                     ContentType   |-> "application/json",
                     UserAgent     |-> "ShopSavvy-Go-SDK/" \o Version],
     RetryCount |-> RetryCount]

\* NewClient with the key argument validated before the options run
NewClient_ValidateFirst(apiKey, options) ==
    LET config == ApplyOptions(options,
                               [APIKey  |-> apiKey,
                                BaseURL |-> DefaultBaseURL,
                                Timeout |-> DefaultTimeout])
    IN  IF apiKey = <<>>
        THEN [client |-> Nil, err |-> ErrKeyRequired]
        ELSE IF ~MatchString(apiKey)
        THEN [client |-> Nil, err |-> ErrKeyFormat]
        ELSE [client |-> [config |-> config, client |-> RestyClient(config)],
              err    |-> Nil]

\* NewClient(apiKey, options...) (*Client, error)
NewClient(apiKey, options) ==
    LET config == ApplyOptions(options,
                               [APIKey  |-> apiKey,
                                BaseURL |-> DefaultBaseURL,
                                Timeout |-> DefaultTimeout])
    IN  IF config.APIKey = <<>>
        THEN [client |-> Nil, err |-> ErrKeyRequired]
        ELSE IF ~MatchString(config.APIKey)
        THEN [client |-> Nil, err |-> ErrKeyFormat]
        ELSE [client |-> [config |-> config, client |-> RestyClient(config)],
              err    |-> Nil]

(***************************************************************************)
(* Error mapping                                                           *)
(***************************************************************************)
\* http.StatusText(code)
StatusText(code) ==
    CASE code = 100 -> "Continue"
      [] code = 101 -> "Switching Protocols"
      [] code = 102 -> "Processing"
      [] code = 103 -> "Early Hints"
      [] code = 200 -> "OK"
      [] code = 201 -> "Created"
      [] code = 202 -> "Accepted"
      [] code = 203 -> "Non-Authoritative Information"
      [] code = 204 -> "No Content"
      [] code = 205 -> "Reset Content"
      [] code = 206 -> "Partial Content"
      [] code = 207 -> "Multi-Status"
      [] code = 208 -> "Already Reported"
      [] code = 226 -> "IM Used"
      [] code = 300 -> "Multiple Choices"
      [] code = 301 -> "Moved Permanently"
      [] code = 302 -> "Found"
      [] code = 303 -> "See Other"
      [] code = 304 -> "Not Modified"
      [] code = 305 -> "Use Proxy"
      [] code = 307 -> "Temporary Redirect"
      [] code = 308 -> "Permanent Redirect"
      [] code = 400 -> "Bad Request"
      [] code = 401 -> "Unauthorized"
      [] code = 402 -> "Payment Required"
      [] code = 403 -> "Forbidden"
      [] code = 404 -> "Not Found"
      [] code = 405 -> "Method Not Allowed"
      [] code = 406 -> "Not Acceptable"
      [] code = 407 -> "Proxy Authentication Required"
      [] code = 408 -> "Request Timeout"
      [] code = 409 -> "Conflict"
      [] code = 410 -> "Gone"
      [] code = 411 -> "Length Required"
      [] code = 412 -> "Precondition Failed"
      [] code = 413 -> "Request Entity Too Large"
      [] code = 414 -> "Request URI Too Long"
      [] code = 415 -> "Unsupported Media Type"
      [] code = 416 -> "Requested Range Not Satisfiable"
      [] code = 417 -> "Expectation Failed"
      [] code = 418 -> "I'm a teapot"
      [] code = 421 -> "Misdirected Request"
      [] code = 422 -> "Unprocessable Entity"
      [] code = 423 -> "Locked"
      [] code = 424 -> "Failed Dependency"
      [] code = 425 -> "Too Early"
      [] code = 426 -> "Upgrade Required"
      [] code = 428 -> "Precondition Required"
      [] code = 429 -> "Too Many Requests"
      [] code = 431 -> "Request Header Fields Too Large"
      [] code = 451 -> "Unavailable For Legal Reasons"
      [] code = 500 -> "Internal Server Error"
      [] code = 501 -> "Not Implemented"
      [] code = 502 -> "Bad Gateway"
      [] code = 503 -> "Service Unavailable"
      [] code = 504 -> "Gateway Timeout"
      [] code = 505 -> "HTTP Version Not Supported"
      [] code = 506 -> "Variant Also Negotiates"
      [] code = 507 -> "Insufficient Storage"
      [] code = 508 -> "Loop Detected"
      [] code = 510 -> "Not Extended"
      [] code = 511 -> "Network Authentication Required"
      [] OTHER -> ""

\* A response body as the client sees it: whether the content type is JSON,
\* whether the bytes parse as a JSON object, the value of its "error" member
\* ("" when it has none) and whether it carries an envelope with data.
NoBody      == [json |-> FALSE, parses |-> FALSE, error |-> "", data |-> FALSE]
GarbageBody == [json |-> TRUE,  parses |-> FALSE, error |-> "", data |-> FALSE]
ErrorBody(m) == [json |-> TRUE, parses |-> TRUE,  error |-> m,  data |-> FALSE]
DataBody    == [json |-> TRUE,  parses |-> TRUE,  error |-> "", data |-> TRUE]

\* resp.Error(): the *APIErrorResponse registered with SetError, filled from
\* the body of a response with a JSON content type; nil otherwise
ResponseError(body) ==
    IF ~body.json THEN Nil
    ELSE IF ~body.parses THEN [Error |-> ""]
    ELSE [Error |-> body.error]

\* fmt.Sprintf("HTTP %d: %s", statusCode, http.StatusText(statusCode))
FallbackMessage(statusCode) ==
    "HTTP " \o ToString(statusCode) \o ": " \o StatusText(statusCode)

\* the mapping without its switch: every status becomes an APIError
handleErrorResponse_NoSwitch(statusCode, respError) ==
    [kind       |-> "APIError",
     Message    |-> IF respError # Nil /\ respError.Error # ""
                    THEN respError.Error
                    ELSE FallbackMessage(statusCode),
     StatusCode |-> statusCode]

\* handleErrorResponse(resp), resp given by its StatusCode() and Error()
handleErrorResponse(statusCode, respError) ==
    LET errorMsg == IF respError # Nil /\ respError.Error # ""
                    THEN respError.Error
                    ELSE FallbackMessage(statusCode)
    IN  CASE statusCode = 401 ->
               [kind       |-> "AuthenticationError",
                Message    |-> "Authentication failed. Check your API key.",
                StatusCode |-> statusCode]
          [] statusCode = 404 ->
               [kind       |-> "NotFoundError",
                Message    |-> "Resource not found",
                StatusCode |-> statusCode]
          [] statusCode = 422 ->
               [kind       |-> "ValidationError",
                Message    |-> "Request validation failed. Check your parameters.",
                StatusCode |-> statusCode]
          [] statusCode = 429 ->
               [kind       |-> "RateLimitError",
                Message    |-> "Rate limit exceeded. Please slow down your requests.",
                StatusCode |-> statusCode]
          [] OTHER ->
               [kind       |-> "APIError",
                Message    |-> errorMsg,
                StatusCode |-> statusCode]

(***************************************************************************)
(* Requests and responses                                                  *)
(***************************************************************************)
\* What the HTTP transport answers to one request: no response at all (a
\* connection failure, or the client's deadline passing), or a response.
NetworkFailure == [transport |-> "failed", timeout |-> FALSE]
DeadlineExceeded == [transport |-> "failed", timeout |-> TRUE]
Response(status, body) == [transport |-> "ok", status |-> status, body |-> body]

\* the error resty returns when the transport gives no response (a *url.Error)
TransportError(outcome) ==
    [kind    |-> "url.Error",
     Message |-> IF outcome.timeout THEN "context deadline exceeded"
                 ELSE "connection refused",
     Timeout |-> outcome.timeout]

\* the error of json.Unmarshal on a 2xx body that is not the expected JSON
UnmarshalError == [kind |-> "json.SyntaxError", Message |-> "invalid character"]

\* resty's Response.IsSuccess and Response.IsError
IsSuccess(status) == status > 199 /\ status < 300
IsError(status) == status > 399

\* the zero value of the result the method declares (var response ...)
ZeroResult == [Success |-> FALSE, Data |-> "zero"]

\* SetResult(&response): a 2xx JSON body is unmarshalled into the result
Unmarshal(body) ==
    IF body.data THEN [Success |-> TRUE, Data |-> "payload"] ELSE ZeroResult

\* the hook NewClient installs with OnAfterResponse
OnAfterResponse(status, body) ==
    IF IsError(status) THEN handleErrorResponse(status, ResponseError(body))
    ELSE Nil

\* c.client.R()...Get/Post/Delete(path): one round trip through resty.
\* sent: requests handed to the transport; result: the value left in the
\* method's response variable; err: the error resty returns.
Execute(c, outcome) ==
    IF outcome.transport = "failed"
    THEN [sent |-> 1 + c.client.RetryCount, result |-> ZeroResult,
          err  |-> TransportError(outcome)]
    ELSE IF IsSuccess(outcome.status) /\ outcome.body.json
            /\ ~outcome.body.parses
    THEN [sent |-> 1, result |-> ZeroResult, err |-> UnmarshalError]
    ELSE [sent   |-> 1,
          result |-> IF IsSuccess(outcome.status) /\ outcome.body.json
                     THEN Unmarshal(outcome.body) ELSE ZeroResult,
          err    |-> OnAfterResponse(outcome.status, outcome.body)]

\* the return that hands out &response together with the error
Return_Partial(r) == [response |-> r.result, err |-> r.err]

\* if err != nil { return nil, err }; return &response, nil
Return(r) ==
    IF r.err # Nil THEN [response |-> Nil, err |-> r.err]
    ELSE [response |-> r.result, err |-> Nil]

\* the join that writes the separator after every element
RECURSIVE Join_TrailingSep(_)
Join_TrailingSep(elems) ==
    IF elems = <<>> THEN ""
    ELSE elems[1] \o "," \o Join_TrailingSep(Tail(elems))

\* strings.Join(elems, ",")
RECURSIVE Join(_)
Join(elems) ==
    IF elems = <<>> THEN ""
    ELSE IF Len(elems) = 1 THEN elems[1]
    ELSE elems[1] \o "," \o Join(Tail(elems))

NoParams == <<>>

\* the optional parameter taken from the last variadic value
Optional_Last(name, value) ==
    IF Len(value) > 0 /\ value[Len(value)] # "" THEN name :> value[Len(value)]
    ELSE NoParams

\* the optional parameter `format`/`retailer` added when given and non-empty
Optional(name, value) ==
    IF Len(value) > 0 /\ value[1] # "" THEN name :> value[1] ELSE NoParams

\* the request resty builds from the client's defaults and the method's call
Request(c, verb, path, query, body) ==
    [Method |-> verb, URL |-> c.client.BaseURL \o path,
     QueryParams |-> query, Body |-> body, Header |-> c.client.Header]

(***************************************************************************)
(* Inputs                                                                  *)
(***************************************************************************)
\* sequences over chars of length at most n
Strings(chars, n) == UNION {[1..m -> chars] : m \in 0..n}

AlnumSample == {"a", "Z", "9"}
SuffixChars == AlnumSample \cup {"_"}
Prefixes == {<<"s","s">>, <<"s","k">>}
Separators == {<<"_">>, <<"-">>}
Environments == {Live, Test, <<"p","r","o","d">>}
Suffixes == Strings(SuffixChars, MaxSuffixLen)

Key(prefix, sep1, env, sep2, suffix) == prefix \o sep1 \o env \o sep2 \o suffix

\* "ss_live_abc123"
ScenarioKey == <<"s","s","_","l","i","v","e","_","a","b","c","1","2","3">>
\* "ss_test_Zz9"
OtherKey == <<"s","s","_","t","e","s","t","_","Z","z","9">>

APIKeys ==
    {<<>>, QuickStartKey, TestingKey, ScenarioKey}
    \cup {Key(p, s1, e, s2, suf) : p \in Prefixes, s1 \in Separators,
                                   e \in Environments, s2 \in Separators,
                                   suf \in Suffixes}

BaseURLs == {"https://staging.shopsavvy.test/v2", "http://localhost:8080"}
Timeouts == {60, 5}
PackageOptions ==
    {WithBaseURL(u) : u \in BaseURLs} \cup {WithTimeout(t) : t \in Timeouts}
Options == PackageOptions \cup {CallerOption(k) : k \in {<<>>, OtherKey}}
OptionLists == UNION {[1..m -> Options] : m \in 0..MaxOptions}

\* inputs of the constructor in the specification of the whole client
ClientKeys == {<<>>, QuickStartKey, ScenarioKey}
ClientOptionLists ==
    {<<>>, <<WithBaseURL("http://localhost:8080")>>, <<WithTimeout(60)>>,
     <<CallerOption(OtherKey)>>}

ErrorMessages == {"too many requests", "Internal failure"}
Bodies == {NoBody, GarbageBody, DataBody, ErrorBody("")}
              \cup {ErrorBody(m) : m \in ErrorMessages}

\* statuses handed to the error mapping: everything that is not 2xx
MappingStatuses == (100..599) \ (200..299)

\* what the transport answers in the specification of the whole client
CallStatuses == {101, 200, 304, 400, 401, 404, 422, 429, 500}
Outcomes == {NetworkFailure, DeadlineExceeded}
                \cup {Response(st, b) : st \in CallStatuses, b \in Bodies}

Identifiers == {"012345678901"}
IdentifierLists == {<<"012345678901", "B08N5WRWNW">>}
Retailers == {"amazon"}
Formats == {<<>>}
Frequencies == {"daily"}
Queries == {"laptop"}
Limits == {10}
Offsets == {0}

(***************************************************************************)
(* Requests of the endpoint methods                                        *)
(***************************************************************************)
\* the parameter added when n >= 0
Positive_NonNegative(name, n) ==
    IF n >= 0 THEN name :> ToString(n) ELSE NoParams

\* fmt.Sprintf("%d", n) added to params when n > 0
Positive(name, n) == IF n > 0 THEN name :> ToString(n) ELSE NoParams

SearchProductsRequest(c, query, limit, offset) ==
    Request(c, "GET", "/products/search",
            ("q" :> query) @@ Positive("limit", limit)
                @@ Positive("offset", offset),
            Nil)

GetProductDetailsRequest(c, identifier, format) ==
    Request(c, "GET", "/products",
            ("ids" :> identifier) @@ Optional("format", format), Nil)

GetProductDetailsBatchRequest(c, identifiers, format) ==
    Request(c, "GET", "/products",
            ("ids" :> Join(identifiers)) @@ Optional("format", format), Nil)

GetCurrentOffersRequest(c, identifier, retailer, format) ==
    Request(c, "GET", "/products/offers",
            ("ids" :> identifier) @@ Optional("retailer", <<retailer>>)
                @@ Optional("format", format),
            Nil)

GetCurrentOffersBatchRequest(c, identifiers, retailer, format) ==
    Request(c, "GET", "/products/offers",
            ("ids" :> Join(identifiers)) @@ Optional("retailer", <<retailer>>)
                @@ Optional("format", format),
            Nil)

GetPriceHistoryRequest(c, identifier, startDate, endDate, retailer, format) ==
    Request(c, "GET", "/products/offers/history",
            ("ids" :> identifier) @@ ("start_date" :> startDate)
                @@ ("end_date" :> endDate)
                @@ Optional("retailer", <<retailer>>)
                @@ Optional("format", format),
            Nil)

ScheduleProductMonitoringRequest(c, identifier, frequency, retailer) ==
    Request(c, "POST", "/products/schedule", NoParams,
            ("identifier" :> identifier) @@ ("frequency" :> frequency)
                @@ Optional("retailer", retailer))

ScheduleProductMonitoringBatchRequest(c, identifiers, frequency, retailer) ==
    Request(c, "POST", "/products/schedule", NoParams,
            ("identifiers" :> Join(identifiers)) @@ ("frequency" :> frequency)
                @@ Optional("retailer", retailer))

GetScheduledProductsRequest(c) ==
    Request(c, "GET", "/products/scheduled", NoParams, Nil)

\* the removal sent with Post instead of Delete
RemoveProductFromScheduleRequest_Post(c, identifier) ==
    Request(c, "POST", "/products/schedule", NoParams,
            "identifier" :> identifier)

RemoveProductFromScheduleRequest(c, identifier) ==
    Request(c, "DELETE", "/products/schedule", NoParams,
            "identifier" :> identifier)

RemoveProductsFromScheduleRequest(c, identifiers) ==
    Request(c, "DELETE", "/products/schedule", NoParams,
            "identifiers" :> Join(identifiers))

GetUsageRequest(c) == Request(c, "GET", "/usage", NoParams, Nil)

(***************************************************************************)
(* Operations                                                              *)
(***************************************************************************)
Goroutines == 1..MaxGoroutines

Init ==
    /\ args = Nil
    /\ client = Nil
    /\ err = Nil
    /\ httpRequests = 0
    /\ calls = 0
    /\ call = Nil
    /\ resp = Nil
    /\ mapped = Nil
    /\ closed = FALSE
    /\ inflight = [g \in Goroutines |-> Nil]
    /\ roundTrip = Nil

\* client, err := NewClient(apiKey, options...)
NewClientCall(keys, optionLists) ==
    /\ args = Nil
    /\ \E apiKey \in keys, options \in optionLists :
         LET r == NewClient(apiKey, options)
         IN  /\ args' = [apiKey |-> apiKey, options |-> options]
             /\ client' = r.client
             /\ err' = r.err
    /\ UNCHANGED <<httpRequests, calls, call, resp, mapped,
                   closed, inflight, roundTrip>>

\* the shared part with the timeout set on the client for the call
Invoke_SetsClient(name, input, request, outcome) ==
    /\ client # Nil
    /\ calls < MaxCalls
    /\ LET r == Execute(client, outcome)
           ret == Return(r)
       IN  /\ call' = [method   |-> name,
                       input    |-> input,
                       afterClose |-> closed,
                       request  |-> request,
                       outcome  |-> outcome,
                       response |-> ret.response,
                       err      |-> ret.err]
           /\ httpRequests' = httpRequests + r.sent
    /\ calls' = calls + 1
    /\ client' = [client EXCEPT !.client.Timeout = 10]
    /\ UNCHANGED <<args, err, resp, mapped, closed, inflight, roundTrip>>

\* the part every endpoint method shares: the request is sent in one round
\* trip and the result or the error is returned
Invoke(name, input, request, outcome) ==
    /\ client # Nil
    /\ calls < MaxCalls
    /\ LET r == Execute(client, outcome)
           ret == Return(r)
       IN  /\ call' = [method   |-> name,
                       input    |-> input,
                       afterClose |-> closed,
                       request  |-> request,
                       outcome  |-> outcome,
                       response |-> ret.response,
                       err      |-> ret.err]
           /\ httpRequests' = httpRequests + r.sent
    /\ calls' = calls + 1
    /\ UNCHANGED <<args, client, err, resp, mapped, closed, inflight, roundTrip>>

SearchProductsOn(queries, limits, offsets, outcomes) ==
    \E query \in queries, limit \in limits, offset \in offsets, o \in outcomes :
        Invoke("SearchProducts",
               [query |-> query, limit |-> limit, offset |-> offset],
               SearchProductsRequest(client, query, limit, offset), o)

GetProductDetailsOn(identifiers, formats, outcomes) ==
    \E identifier \in identifiers, format \in formats, o \in outcomes :
        Invoke("GetProductDetails",
               [identifier |-> identifier, format |-> format],
               GetProductDetailsRequest(client, identifier, format), o)

GetProductDetailsBatchOn(lists, formats, outcomes) ==
    \E identifiers \in lists, format \in formats, o \in outcomes :
        Invoke("GetProductDetailsBatch",
               [identifiers |-> identifiers, format |-> format],
               GetProductDetailsBatchRequest(client, identifiers, format), o)

GetCurrentOffersOn(identifiers, retailers, formats, outcomes) ==
    \E identifier \in identifiers, retailer \in retailers, format \in formats,
       o \in outcomes :
        Invoke("GetCurrentOffers",
               [identifier |-> identifier, retailer |-> retailer,
                format |-> format],
               GetCurrentOffersRequest(client, identifier, retailer, format), o)

GetCurrentOffersBatchOn(lists, retailers, formats, outcomes) ==
    \E identifiers \in lists, retailer \in retailers, format \in formats,
       o \in outcomes :
        Invoke("GetCurrentOffersBatch",
               [identifiers |-> identifiers, retailer |-> retailer,
                format |-> format],
               GetCurrentOffersBatchRequest(client, identifiers, retailer,
                                            format), o)

GetPriceHistoryOn(identifiers, retailers, formats, outcomes) ==
    \E identifier \in identifiers, retailer \in retailers, format \in formats,
       o \in outcomes :
        Invoke("GetPriceHistory",
               [identifier |-> identifier, startDate |-> "2024-01-01",
                endDate |-> "2024-01-31", retailer |-> retailer,
                format |-> format],
               GetPriceHistoryRequest(client, identifier, "2024-01-01",
                                      "2024-01-31", retailer, format), o)

ScheduleProductMonitoringOn(identifiers, frequencies, retailers, outcomes) ==
    \E identifier \in identifiers, frequency \in frequencies,
       retailer \in retailers, o \in outcomes :
        Invoke("ScheduleProductMonitoring",
               [identifier |-> identifier, frequency |-> frequency,
                retailer |-> retailer],
               ScheduleProductMonitoringRequest(client, identifier, frequency,
                                                retailer), o)

ScheduleProductMonitoringBatchOn(lists, frequencies, retailers, outcomes) ==
    \E identifiers \in lists, frequency \in frequencies,
       retailer \in retailers, o \in outcomes :
        Invoke("ScheduleProductMonitoringBatch",
               [identifiers |-> identifiers, frequency |-> frequency,
                retailer |-> retailer],
               ScheduleProductMonitoringBatchRequest(client, identifiers,
                                                     frequency, retailer), o)

GetScheduledProductsOn(outcomes) ==
    \E o \in outcomes :
        Invoke("GetScheduledProducts", Nil,
               GetScheduledProductsRequest(client), o)

RemoveProductFromScheduleOn(identifiers, outcomes) ==
    \E identifier \in identifiers, o \in outcomes :
        Invoke("RemoveProductFromSchedule", [identifier |-> identifier],
               RemoveProductFromScheduleRequest(client, identifier), o)

RemoveProductsFromScheduleOn(lists, outcomes) ==
    \E identifiers \in lists, o \in outcomes :
        Invoke("RemoveProductsFromSchedule", [identifiers |-> identifiers],
               RemoveProductsFromScheduleRequest(client, identifiers), o)

GetUsageOn(outcomes) ==
    \E o \in outcomes : Invoke("GetUsage", Nil, GetUsageRequest(client), o)

SearchProducts == SearchProductsOn(Queries, Limits, Offsets, Outcomes)
GetProductDetails == GetProductDetailsOn(Identifiers, Formats, Outcomes)
GetProductDetailsBatch ==
    GetProductDetailsBatchOn(IdentifierLists, Formats, Outcomes)
GetCurrentOffers ==
    GetCurrentOffersOn(Identifiers, Retailers, Formats, Outcomes)
GetCurrentOffersBatch ==
    GetCurrentOffersBatchOn(IdentifierLists, Retailers, Formats, Outcomes)
GetPriceHistory == GetPriceHistoryOn(Identifiers, Retailers, Formats, Outcomes)
ScheduleProductMonitoring ==
    ScheduleProductMonitoringOn(Identifiers, Frequencies,
                                {<<r>> : r \in Retailers}, Outcomes)
ScheduleProductMonitoringBatch ==
    ScheduleProductMonitoringBatchOn(IdentifierLists, Frequencies,
                                     {<<r>> : r \in Retailers}, Outcomes)
GetScheduledProducts == GetScheduledProductsOn(Outcomes)
RemoveProductFromSchedule == RemoveProductFromScheduleOn(Identifiers, Outcomes)
RemoveProductsFromSchedule ==
    RemoveProductsFromScheduleOn(IdentifierLists, Outcomes)
GetUsage == GetUsageOn(Outcomes)

NewClientStep == NewClientCall(ClientKeys, ClientOptionLists)

Next ==
    \/ NewClientStep
    \/ SearchProducts
    \/ GetProductDetails
    \/ GetProductDetailsBatch
    \/ GetCurrentOffers
    \/ GetCurrentOffersBatch
    \/ GetPriceHistory
    \/ ScheduleProductMonitoring
    \/ ScheduleProductMonitoringBatch
    \/ GetScheduledProducts
    \/ RemoveProductFromSchedule
    \/ RemoveProductsFromSchedule
    \/ GetUsage

Spec == Init /\ [][Next]_vars

(***************************************************************************)
(* The constructor on its own, over a wide set of keys and options         *)
(***************************************************************************)
Construct == NewClientCall(APIKeys, OptionLists)

NextNewClient == Construct

SpecNewClient == Init /\ [][NextNewClient]_vars

(***************************************************************************)
(* The error mapping on its own: a pure function of status and body        *)
(***************************************************************************)
InitErrorMapping ==
    /\ args = Nil
    /\ client = Nil
    /\ err = Nil
    /\ httpRequests = 0
    /\ calls = 0
    /\ call = Nil
    /\ resp \in {[status |-> st, body |-> b] : st \in MappingStatuses, b \in Bodies}
    /\ mapped = Nil
    /\ closed = FALSE
    /\ inflight = [g \in Goroutines |-> Nil]
    /\ roundTrip = Nil

HandleErrorResponse ==
    /\ mapped = Nil
    /\ mapped' = handleErrorResponse(resp.status, ResponseError(resp.body))
    /\ UNCHANGED <<args, client, err, httpRequests, calls, call, resp,
                   closed, inflight, roundTrip>>

NextErrorMapping == HandleErrorResponse

SpecErrorMapping == InitErrorMapping /\ [][NextErrorMapping]_vars

(***************************************************************************)
(* The requests of the endpoint methods, over a wide set of arguments, and *)
(* Close                                                                   *)
(***************************************************************************)
AnyIdentifiers == {"012345678901", "B08N5WRWNW"}
AnyIdentifierLists ==
    UNION {[1..n -> AnyIdentifiers] : n \in 0..MaxIdentifiers}
AnyRetailers == {"", "amazon"}
AnyRetailerArgs == {<<>>, <<"">>, <<"amazon">>}
AnyFormats == {<<>>, <<"">>, <<"csv", "json">>}
AnyQueries == {"", "laptop"}
AnyLimits == {-1, 0, 10}
AnyOffsets == {-5, 0, 120}
RequestOutcomes ==
    {Response(200, DataBody), Response(429, ErrorBody("too many requests"))}
SomeOutcomes == RequestOutcomes \cup {DeadlineExceeded}

\* Close releasing the HTTP client
Close_Releasing ==
    /\ client # Nil
    /\ closed' = TRUE
    /\ client' = Nil
    /\ UNCHANGED <<args, err, httpRequests, calls, call, resp, mapped,
                   inflight, roundTrip>>

\* func (c *Client) Close()
Close ==
    /\ client # Nil
    /\ closed' = TRUE
    /\ UNCHANGED <<args, client, err, httpRequests, calls, call, resp, mapped,
                   inflight, roundTrip>>

NextRequests ==
    \/ NewClientCall({ScenarioKey}, {<<>>})
    \/ NewClientCall({OtherKey},
                     {<<WithBaseURL("http://localhost:8080"), WithTimeout(60)>>})
    \/ Close
    \/ SearchProductsOn(AnyQueries, AnyLimits, AnyOffsets, RequestOutcomes)
    \/ GetProductDetailsOn(AnyIdentifiers, AnyFormats, RequestOutcomes)
    \/ GetProductDetailsBatchOn(AnyIdentifierLists, AnyFormats, RequestOutcomes)
    \/ GetCurrentOffersOn(AnyIdentifiers, AnyRetailers, AnyFormats, RequestOutcomes)
    \/ GetCurrentOffersBatchOn(AnyIdentifierLists, AnyRetailers, AnyFormats,
                               RequestOutcomes)
    \/ GetPriceHistoryOn(AnyIdentifiers, AnyRetailers, AnyFormats, RequestOutcomes)
    \/ ScheduleProductMonitoringOn(AnyIdentifiers, Frequencies, AnyRetailerArgs,
                                   RequestOutcomes)
    \/ ScheduleProductMonitoringBatchOn(AnyIdentifierLists, Frequencies,
                                        AnyRetailerArgs, RequestOutcomes)
    \/ GetScheduledProductsOn(RequestOutcomes)
    \/ RemoveProductFromScheduleOn(AnyIdentifiers, RequestOutcomes)
    \/ RemoveProductsFromScheduleOn(AnyIdentifierLists, RequestOutcomes)
    \/ GetUsageOn(RequestOutcomes)

SpecRequests == Init /\ [][NextRequests]_vars

(***************************************************************************)
(* One client shared by concurrent callers                                 *)
(***************************************************************************)
\* the invocations the goroutines make
ConcurrentCalls(c) ==
    {[method  |-> "GetProductDetails",
      input   |-> [identifier |-> id, format |-> <<>>],
      request |-> GetProductDetailsRequest(c, id, <<>>)] : id \in AnyIdentifiers}
    \cup
    {[method  |-> "ScheduleProductMonitoring",
      input   |-> [identifier |-> id, frequency |-> "daily", retailer |-> <<>>],
      request |-> ScheduleProductMonitoringRequest(c, id, "daily", <<>>)] :
         id \in AnyIdentifiers}
    \cup
    {[method |-> "GetUsage", input |-> Nil, request |-> GetUsageRequest(c)]}

\* the response another call of the client received, when there is one
Delivered_Shared(g) ==
    LET others == {h \in Goroutines :
                      h # g /\ inflight[h] # Nil /\ inflight[h].outcome # Nil}
    IN  IF others = {} THEN inflight[g].outcome
        ELSE inflight[CHOOSE h \in others : TRUE].outcome

\* the response unmarshalled into the call's own `response` variable
Delivered(g) == inflight[g].outcome

\* goroutine g enters an endpoint method: parameters and request are built
Begin(g) ==
    /\ client # Nil
    /\ calls < MaxCalls
    /\ IF inflight[g] = Nil THEN TRUE ELSE inflight[g].phase = "done"
    /\ \E inv \in ConcurrentCalls(client) :
         inflight' = [inflight EXCEPT ![g] =
                         [phase    |-> "sent",
                          method   |-> inv.method,
                          input    |-> inv.input,
                          request  |-> inv.request,
                          outcome  |-> Nil,
                          response |-> Nil,
                          err      |-> Nil]]
    /\ calls' = calls + 1
    /\ UNCHANGED <<args, client, err, httpRequests, call, resp, mapped,
                   closed, roundTrip>>

\* the transport answers the request of goroutine g
Respond(g) ==
    /\ inflight[g] # Nil
    /\ inflight[g].phase = "sent"
    /\ \E o \in SomeOutcomes :
         /\ inflight' = [inflight EXCEPT ![g].phase = "responded",
                                         ![g].outcome = o]
         /\ httpRequests' = httpRequests + Execute(client, o).sent
    /\ UNCHANGED <<args, client, err, calls, call, resp, mapped,
                   closed, roundTrip>>

\* the method of goroutine g returns
Complete(g) ==
    /\ inflight[g] # Nil
    /\ inflight[g].phase = "responded"
    /\ LET ret == Return(Execute(client, Delivered(g)))
       IN  inflight' = [inflight EXCEPT ![g].phase = "done",
                                        ![g].response = ret.response,
                                        ![g].err = ret.err]
    /\ UNCHANGED <<args, client, err, httpRequests, calls, call, resp, mapped,
                   closed, roundTrip>>

NextConcurrent ==
    \/ NewClientCall({ScenarioKey}, {<<>>})
    \/ \E g \in Goroutines : Begin(g)
    \/ \E g \in Goroutines : Respond(g)
    \/ \E g \in Goroutines : Complete(g)

SpecConcurrent == Init /\ [][NextConcurrent]_vars

(***************************************************************************)
(* The payload types and their JSON encoding (encoding/json)              *)
(*                                                                         *)
(* A Go value is: a string, an int, a bool; a float64 given as a whole     *)
(* number of hundredths; a pointer, Nil or [ptr |-> v]; a slice, Nil or    *)
(* [slice |-> seq]; a map[string]string, Nil or [map |-> seq of <<key,     *)
(* value>> in key order]; a struct, a function from Go field names to      *)
(* values (the fields of an embedded struct are promoted).  A JSON         *)
(* document is a tree: JSONNull, a string, a number (its text), a bool, an *)
(* array, or an object whose members are <<key, document>> in the order    *)
(* they are written.                                                       *)
(***************************************************************************)
TString == [k |-> "string"]
TInt == [k |-> "int"]
TBool == [k |-> "bool"]
TFloat64 == [k |-> "float64"]
Ptr(T) == [k |-> "ptr", elem |-> T]
Slice(T) == [k |-> "slice", elem |-> T]
TMapOfString == [k |-> "map"]
Struct(name) == [k |-> "struct", name |-> name]

\* a struct field with its tag `json:"key"` or `json:"key,omitempty"`
Field(name, type, key, omitempty) ==
    [name |-> name, type |-> type, key |-> key, omitempty |-> omitempty]

APIMeta ==
    <<Field("CreditsUsed", TInt, "credits_used", FALSE),
      Field("CreditsRemaining", TInt, "credits_remaining", FALSE),
      Field("RateLimitRemaining", Ptr(TInt), "rate_limit_remaining", TRUE)>>

\* APIResponse[T]
APIResponse(T) ==
    <<Field("Success", TBool, "success", FALSE),
      Field("Data", T, "data", FALSE),
      Field("Message", TString, "message", TRUE),
      Field("Meta", Ptr(Struct("APIMeta")), "meta", TRUE)>>

ProductDetails ==
    <<Field("Title", TString, "title", FALSE),
      Field("ShopSavvy", TString, "shopsavvy", FALSE),
      Field("Brand", Ptr(TString), "brand", TRUE),
      Field("Category", Ptr(TString), "category", TRUE),
      Field("Images", Slice(TString), "images", TRUE),
      Field("Barcode", Ptr(TString), "barcode", TRUE),
      Field("Amazon", Ptr(TString), "amazon", TRUE),
      Field("Model", Ptr(TString), "model", TRUE),
      Field("MPN", Ptr(TString), "mpn", TRUE),
      Field("Color", Ptr(TString), "color", TRUE)>>

PriceHistoryEntry ==
    <<Field("Date", TString, "date", FALSE),
      Field("Price", TFloat64, "price", FALSE),
      Field("Availability", TString, "availability", FALSE)>>

Offer ==
    <<Field("ID", TString, "id", FALSE),
      Field("Retailer", Ptr(TString), "retailer", TRUE),
      Field("Price", Ptr(TFloat64), "price", TRUE),
      Field("Currency", Ptr(TString), "currency", TRUE),
      Field("Availability", Ptr(TString), "availability", TRUE),
      Field("Condition", Ptr(TString), "condition", TRUE),
      Field("URL", Ptr(TString), "URL", TRUE),
      Field("Seller", Ptr(TString), "seller", TRUE),
      Field("Timestamp", Ptr(TString), "timestamp", TRUE),
      Field("History", Slice(Struct("PriceHistoryEntry")), "history", TRUE)>>

\* embeds ProductDetails
ProductWithOffers ==
    ProductDetails \o <<Field("Offers", Slice(Struct("Offer")), "offers", FALSE)>>

\* embeds Offer
OfferWithHistory ==
    Offer \o <<Field("PriceHistory", Slice(Struct("PriceHistoryEntry")),
                     "price_history", FALSE)>>

ScheduledProduct ==
    <<Field("ProductID", TString, "product_id", FALSE),
      Field("Identifier", TString, "identifier", FALSE),
      Field("Frequency", TString, "frequency", FALSE),
      Field("Retailer", Ptr(TString), "retailer", TRUE),
      Field("CreatedAt", TString, "created_at", FALSE),
      Field("LastRefreshed", Ptr(TString), "last_refreshed", TRUE)>>

UsagePeriod ==
    <<Field("StartDate", TString, "start_date", FALSE),
      Field("EndDate", TString, "end_date", FALSE),
      Field("CreditsUsed", TInt, "credits_used", FALSE),
      Field("CreditsLimit", TInt, "credits_limit", FALSE),
      Field("CreditsRemaining", TInt, "credits_remaining", FALSE),
      Field("RequestsMade", TInt, "requests_made", FALSE)>>

UsageInfo ==
    <<Field("CurrentPeriod", Struct("UsagePeriod"), "current_period", FALSE),
      Field("UsagePercentage", TFloat64, "usage_percentage", FALSE)>>

PaginationInfo ==
    <<Field("Total", TInt, "total", FALSE),
      Field("Limit", TInt, "limit", FALSE),
      Field("Offset", TInt, "offset", FALSE),
      Field("Returned", TInt, "returned", FALSE)>>

ProductSearchResult ==
    <<Field("Success", TBool, "success", FALSE),
      Field("Data", Slice(Struct("ProductDetails")), "data", FALSE),
      Field("Pagination", Ptr(Struct("PaginationInfo")), "pagination", TRUE),
      Field("Meta", Ptr(Struct("APIMeta")), "meta", TRUE)>>

ScheduleResponse ==
    <<Field("Scheduled", TBool, "scheduled", FALSE),
      Field("ProductID", TString, "product_id", FALSE)>>

ScheduleBatchResponse ==
    <<Field("Identifier", TString, "identifier", FALSE),
      Field("Scheduled", TBool, "scheduled", FALSE),
      Field("ProductID", TString, "product_id", FALSE)>>

RemoveResponse == <<Field("Removed", TBool, "removed", FALSE)>>

RemoveBatchResponse ==
    <<Field("Identifier", TString, "identifier", FALSE),
      Field("Removed", TBool, "removed", FALSE)>>

APIErrorResponse == <<Field("Error", TString, "error", FALSE)>>

\* the definitions of types.go that differ from the ones above
APIResponse_types(T) ==
    <<Field("Success", TBool, "success", FALSE),
      Field("Data", T, "data", FALSE),
      Field("Message", TString, "message", TRUE),
      Field("CreditsUsed", Ptr(TInt), "credits_used", TRUE),
      Field("CreditsRemaining", Ptr(TInt), "credits_remaining", TRUE)>>

ProductDetails_types ==
    <<Field("ProductID", TString, "product_id", FALSE),
      Field("Name", TString, "name", FALSE),
      Field("Brand", Ptr(TString), "brand", TRUE),
      Field("Category", Ptr(TString), "category", TRUE),
      Field("ImageURL", Ptr(TString), "image_url", TRUE),
      Field("Barcode", Ptr(TString), "barcode", TRUE),
      Field("ASIN", Ptr(TString), "asin", TRUE),
      Field("Model", Ptr(TString), "model", TRUE),
      Field("MPN", Ptr(TString), "mpn", TRUE),
      Field("Description", Ptr(TString), "description", TRUE),
      Field("Identifiers", TMapOfString, "identifiers", TRUE)>>

Offer_types ==
    <<Field("OfferID", TString, "offer_id", FALSE),
      Field("Retailer", TString, "retailer", FALSE),
      Field("Price", TFloat64, "price", FALSE),
      Field("Currency", TString, "currency", FALSE),
      Field("Availability", TString, "availability", FALSE),
      Field("Condition", TString, "condition", FALSE),
      Field("URL", TString, "url", FALSE),
      Field("Shipping", Ptr(TFloat64), "shipping", TRUE),
      Field("LastUpdated", TString, "last_updated", FALSE)>>

OfferWithHistory_types ==
    Offer_types \o <<Field("PriceHistory", Slice(Struct("PriceHistoryEntry")),
                           "price_history", FALSE)>>

UsageInfo_types ==
    <<Field("CreditsUsed", TInt, "credits_used", FALSE),
      Field("CreditsRemaining", TInt, "credits_remaining", FALSE),
      Field("CreditsTotal", TInt, "credits_total", FALSE),
      Field("BillingPeriodStart", TString, "billing_period_start", FALSE),
      Field("BillingPeriodEnd", TString, "billing_period_end", FALSE),
      Field("PlanName", TString, "plan_name", FALSE)>>

\* the fields of a named struct type
Fields(name) ==
    CASE name = "APIMeta" -> APIMeta
      [] name = "APIResponse[[]ProductDetails]" ->
           APIResponse(Slice(Struct("ProductDetails")))
      [] name = "APIResponse[[]ProductWithOffers]" ->
           APIResponse(Slice(Struct("ProductWithOffers")))
      [] name = "APIResponse[ScheduleResponse]" ->
           APIResponse(Struct("ScheduleResponse"))
      [] name = "APIResponse[UsageInfo]" -> APIResponse(Struct("UsageInfo"))
      [] name = "ProductDetails" -> ProductDetails
      [] name = "PriceHistoryEntry" -> PriceHistoryEntry
      [] name = "Offer" -> Offer
      [] name = "ProductWithOffers" -> ProductWithOffers
      [] name = "OfferWithHistory" -> OfferWithHistory
      [] name = "ScheduledProduct" -> ScheduledProduct
      [] name = "UsagePeriod" -> UsagePeriod
      [] name = "UsageInfo" -> UsageInfo
      [] name = "PaginationInfo" -> PaginationInfo
      [] name = "ProductSearchResult" -> ProductSearchResult
      [] name = "ScheduleResponse" -> ScheduleResponse
      [] name = "ScheduleBatchResponse" -> ScheduleBatchResponse
      [] name = "RemoveResponse" -> RemoveResponse
      [] name = "RemoveBatchResponse" -> RemoveBatchResponse
      [] name = "APIErrorResponse" -> APIErrorResponse
      [] name = "types.go APIResponse[[]ProductDetails]" ->
           APIResponse_types(Slice(Struct("types.go ProductDetails")))
      [] name = "types.go ProductDetails" -> ProductDetails_types
      [] name = "types.go Offer" -> Offer_types
      [] name = "types.go OfferWithHistory" -> OfferWithHistory_types
      [] name = "types.go UsageInfo" -> UsageInfo_types

\* the types a value is drawn from
PayloadTypes ==
    {"APIMeta", "APIResponse[[]ProductDetails]",
     "APIResponse[[]ProductWithOffers]", "APIResponse[ScheduleResponse]",
     "APIResponse[UsageInfo]", "ProductDetails", "PriceHistoryEntry", "Offer",
     "ProductWithOffers", "OfferWithHistory", "ScheduledProduct",
     "UsagePeriod", "UsageInfo", "PaginationInfo", "ProductSearchResult",
     "ScheduleResponse", "ScheduleBatchResponse", "RemoveResponse",
     "RemoveBatchResponse", "APIErrorResponse",
     "types.go APIResponse[[]ProductDetails]", "types.go ProductDetails",
     "types.go Offer", "types.go OfferWithHistory", "types.go UsageInfo"}

FieldNames(fs) == {fs[i].name : i \in 1..Len(fs)}

FieldNamed(fs, name) == fs[CHOOSE i \in 1..Len(fs) : fs[i].name = name]

\* the zero value of a type: what `var v T` holds
RECURSIVE Zero(_)
Zero(T) ==
    CASE T.k = "string" -> ""
      [] T.k = "int" -> 0
      [] T.k = "float64" -> 0
      [] T.k = "bool" -> FALSE
      [] T.k \in {"ptr", "slice", "map"} -> Nil
      [] T.k = "struct" ->
           LET fs == Fields(T.name)
           IN  [n \in FieldNames(fs) |-> Zero(FieldNamed(fs, n).type)]

\* strconv: the decimal text of an int and back
Ints == {0, 42, 1000}

Itoa(n) == ToString(n)

Atoi(s) == CHOOSE n \in Ints : Itoa(n) = s

\* strconv: the shortest text of a float64 (here in hundredths) and back
Floats == {0, 1999, 2500, 2550}

FormatFloat(f) ==
    LET whole == f \div 100
        frac == f % 100
    IN  IF frac = 0 THEN ToString(whole)
        ELSE IF frac % 10 = 0
             THEN ToString(whole) \o "." \o ToString(frac \div 10)
             ELSE ToString(whole) \o "." \o (IF frac < 10 THEN "0" ELSE "")
                      \o ToString(frac)

ParseFloat(s) == CHOOSE f \in Floats : FormatFloat(f) = s

JSONNull == [t |-> "null"]

\* encoding/json isEmptyValue: what omitempty leaves out
IsEmptyValue(T, v) ==
    CASE T.k = "string" -> v = ""
      [] T.k = "int" -> v = 0
      [] T.k = "float64" -> v = 0
      [] T.k = "bool" -> v = FALSE
      [] T.k = "ptr" -> v = Nil
      [] T.k = "slice" -> IF v = Nil THEN TRUE ELSE Len(v.slice) = 0
      [] T.k = "map" -> IF v = Nil THEN TRUE ELSE Len(v.map) = 0
      [] T.k = "struct" -> FALSE

\* json.Marshal
RECURSIVE MarshalValue(_, _)
RECURSIVE MarshalFields(_, _)
MarshalValue(T, v) ==
    CASE T.k = "string" -> [t |-> "string", s |-> v]
      [] T.k = "int" -> [t |-> "number", s |-> Itoa(v)]
      [] T.k = "float64" -> [t |-> "number", s |-> FormatFloat(v)]
      [] T.k = "bool" -> [t |-> "bool", b |-> v]
      [] T.k = "ptr" ->
           IF v = Nil THEN JSONNull ELSE MarshalValue(T.elem, v.ptr)
      [] T.k = "slice" ->
           IF v = Nil THEN JSONNull
           ELSE [t |-> "array",
                 elems |-> [i \in 1..Len(v.slice) |->
                               MarshalValue(T.elem, v.slice[i])]]
      [] T.k = "map" ->
           IF v = Nil THEN JSONNull
           ELSE [t |-> "object",
                 members |-> [i \in 1..Len(v.map) |->
                                 <<v.map[i][1],
                                   [t |-> "string", s |-> v.map[i][2]]>>]]
      [] T.k = "struct" ->
           [t |-> "object", members |-> MarshalFields(Fields(T.name), v)]

MarshalFields(fs, v) ==
    IF Len(fs) = 0 THEN <<>>
    ELSE LET f == Head(fs)
             rest == MarshalFields(Tail(fs), v)
         IN  IF f.omitempty /\ IsEmptyValue(f.type, v[f.name]) THEN rest
             ELSE <<<<f.key, MarshalValue(f.type, v[f.name])>>>> \o rest

HasKey(members, key) == \E i \in 1..Len(members) : members[i][1] = key

Lookup(members, key) ==
    members[CHOOSE i \in 1..Len(members) : members[i][1] = key][2]

\* json.Unmarshal into a zero value: a key that is absent leaves the field
\* as it is, null leaves a scalar as it is and makes a pointer, slice or map
\* nil
RECURSIVE UnmarshalValue(_, _)
UnmarshalValue(T, j) ==
    IF j.t = "null" THEN Zero(T)
    ELSE CASE T.k = "string" -> j.s
           [] T.k = "int" -> Atoi(j.s)
           [] T.k = "float64" -> ParseFloat(j.s)
           [] T.k = "bool" -> j.b
           [] T.k = "ptr" -> [ptr |-> UnmarshalValue(T.elem, j)]
           [] T.k = "slice" ->
                [slice |-> [i \in 1..Len(j.elems) |->
                               UnmarshalValue(T.elem, j.elems[i])]]
           [] T.k = "map" ->
                [map |-> [i \in 1..Len(j.members) |->
                             <<j.members[i][1], j.members[i][2].s>>]]
           [] T.k = "struct" ->
                LET fs == Fields(T.name)
                IN  [n \in FieldNames(fs) |->
                        LET f == FieldNamed(fs, n)
                        IN  IF HasKey(j.members, f.key)
                            THEN UnmarshalValue(f.type,
                                                Lookup(j.members, f.key))
                            ELSE Zero(f.type)]

\* a value of the type with every field set and every list non-empty
RECURSIVE Full(_)
Full(T) ==
    CASE T.k = "string" -> "Widget"
      [] T.k = "int" -> 42
      [] T.k = "float64" -> 1999
      [] T.k = "bool" -> TRUE
      [] T.k = "ptr" -> [ptr |-> Full(T.elem)]
      [] T.k = "slice" -> [slice |-> <<Full(T.elem)>>]
      [] T.k = "map" -> [map |-> <<<<"upc", "012345678901">>>>]
      [] T.k = "struct" ->
           LET fs == Fields(T.name)
           IN  [n \in FieldNames(fs) |-> Full(FieldNamed(fs, n).type)]

\* the slice of n elements, full and zero elements in turn
Elems(T, n) ==
    [slice |-> [i \in 1..n |-> IF i % 2 = 1 THEN Full(T) ELSE Zero(T)]]

\* the values a field of the type is drawn from, the zero value first
Samples(T) ==
    CASE T.k = "string" -> <<"", "Widget">>
      [] T.k = "int" -> <<0, 42, 1000>>
      [] T.k = "float64" -> <<0, 1999, 2500, 2550>>
      [] T.k = "bool" -> <<FALSE, TRUE>>
      [] T.k = "ptr" -> <<Nil, [ptr |-> Zero(T.elem)], [ptr |-> Full(T.elem)]>>
      [] T.k = "slice" ->
           <<Nil>> \o [n \in 1..(MaxElems + 1) |-> Elems(T.elem, n - 1)]
      [] T.k = "map" ->
           <<Nil, [map |-> <<>>], [map |-> <<<<"upc", "012345678901">>>>]>>
      [] T.k = "struct" -> <<Zero(T), Full(T)>>

MaxSamples == MaxElems + 2

\* the values of a struct type in which at most MaxVaried fields are not
\* zero, and the full value
Values(name) ==
    LET fs == Fields(name)
        Index(n) == CHOOSE i \in 1..Len(fs) : fs[i].name = n
        Choices(S) ==
            {a \in [S -> 1..MaxSamples] :
                \A i \in S : a[i] <= Len(Samples(fs[i].type))}
        Value(S, a) ==
            [n \in FieldNames(fs) |->
                IF Index(n) \in S
                THEN Samples(fs[Index(n)].type)[a[Index(n)]]
                ELSE Zero(fs[Index(n)].type)]
    IN  {Full(Struct(name))} \cup
        UNION {{Value(S, a) : a \in Choices(S)} :
                  S \in {S \in SUBSET (1..Len(fs)) : Cardinality(S) <= MaxVaried}}

\* var v T = ...: a value of a payload type, not yet serialized
InitRoundTrip ==
    /\ args = Nil
    /\ client = Nil
    /\ err = Nil
    /\ httpRequests = 0
    /\ calls = 0
    /\ call = Nil
    /\ resp = Nil
    /\ mapped = Nil
    /\ closed = FALSE
    /\ inflight = [g \in Goroutines |-> Nil]
    /\ \E n \in PayloadTypes :
          roundTrip \in {[type |-> n, value |-> v, json |-> Nil,
                          decoded |-> Nil] : v \in Values(n)}

\* data, _ := json.Marshal(v)
Serialize ==
    /\ roundTrip.json = Nil
    /\ roundTrip' =
          [roundTrip EXCEPT
              !.json = MarshalValue(Struct(roundTrip.type), roundTrip.value)]
    /\ UNCHANGED <<args, client, err, httpRequests, calls, call, resp,
                   mapped, closed, inflight>>

\* var w T; json.Unmarshal(data, &w)
Deserialize ==
    /\ roundTrip.json # Nil
    /\ roundTrip.decoded = Nil
    /\ roundTrip' =
          [roundTrip EXCEPT
              !.decoded = UnmarshalValue(Struct(roundTrip.type),
                                         roundTrip.json)]
    /\ UNCHANGED <<args, client, err, httpRequests, calls, call, resp,
                   mapped, closed, inflight>>

NextRoundTrip == Serialize \/ Deserialize

SpecRoundTrip == InitRoundTrip /\ [][NextRoundTrip]_vars

(***************************************************************************)
(* Properties of the constructor (checked under SpecNewClient)             *)
(***************************************************************************)
\* the malformed keys: empty, prefix other than "ss", environment other than
\* live/test, a separator other than "_", or an empty suffix
MalformedKeys ==
    {<<>>} \cup
    {Key(p, s1, e, s2, suf) : p \in Prefixes \ {<<"s","s">>}, s1 \in Separators,
                              e \in Environments, s2 \in Separators,
                              suf \in Suffixes} \cup
    {Key(p, s1, e, s2, suf) : p \in Prefixes, s1 \in Separators,
                              e \in Environments \ {Live, Test},
                              s2 \in Separators, suf \in Suffixes} \cup
    {Key(p, s1, e, s2, suf) : p \in Prefixes, s1 \in Separators \ {<<"_">>},
                              e \in Environments, s2 \in Separators,
                              suf \in Suffixes} \cup
    {Key(p, s1, e, s2, suf) : p \in Prefixes, s1 \in Separators,
                              e \in Environments,
                              s2 \in Separators \ {<<"_">>},
                              suf \in Suffixes} \cup
    {Key(p, s1, e, s2, <<>>) : p \in Prefixes, s1 \in Separators,
                               e \in Environments, s2 \in Separators}

\* the keys ss_live_<s> and ss_test_<s>, <s> non-empty letters and digits
WellFormedKeys ==
    {ScenarioKey, OtherKey} \cup
    {Key(<<"s","s">>, <<"_">>, e, <<"_">>, suf) :
         e \in {Live, Test},
         suf \in Strings(AlnumSample, MaxSuffixLen) \ {<<>>}}

\* no option of the list assigns Config.APIKey
KeepsKey(options) == \A i \in 1..Len(options) : options[i].field # "APIKey"

\* the value the last option for `field` gives it, `default` if there is none
RECURSIVE LastSet(_, _, _)
LastSet(options, field, default) ==
    IF options = <<>> THEN default
    ELSE IF options[Len(options)].field = field
    THEN options[Len(options)].value
    ELSE LastSet(SubSeq(options, 1, Len(options) - 1), field, default)

\* C1 as stated: for every malformed API key NewClient returns a nil client
\* and a configuration error and sends no HTTP request, whatever options are
\* passed.
C1_AsStated ==
    (args # Nil /\ args.apiKey \in MalformedKeys)
        => (client = Nil /\ err # Nil /\ httpRequests = 0)

\* C1 amended: for every malformed API key NewClient returns a nil client and
\* a configuration error and sends no HTTP request, whatever options are
\* passed that do not assign Config.APIKey (WithBaseURL and WithTimeout never
\* do).
C1_MalformedKeyRejected ==
    (args # Nil /\ args.apiKey \in MalformedKeys /\ KeepsKey(args.options))
        => (/\ client = Nil
            /\ err \in {ErrKeyRequired, ErrKeyFormat}
            /\ httpRequests = 0)

C1_Witness ==
    /\ args # Nil
    /\ args.apiKey = Key(<<"s","s">>, <<"_">>, Live, <<"_">>, <<>>)
    /\ args.options = <<WithTimeout(5), WithBaseURL("http://localhost:8080")>>
    /\ client = Nil
    /\ err = ErrKeyFormat

\* C2: for every key ss_live_<s> or ss_test_<s> with <s> a non-empty string
\* of letters and digits, NewClient returns a non-nil client and a nil error.
C2_WellFormedKeyAccepted ==
    (args # Nil /\ args.apiKey \in WellFormedKeys /\ KeepsKey(args.options))
        => (client # Nil /\ err = Nil)

C2_Witness ==
    /\ args # Nil
    /\ args.apiKey = Key(<<"s","s">>, <<"_">>, Test, <<"_">>, <<"Z">>)
    /\ client # Nil
    /\ client.config.APIKey = args.apiKey

\* C3: the keys of the documentation, "ss_live_your_api_key_here" and
\* "ss_test_your_test_key_here", are accepted by NewClient.
C3_DocumentedKeysAccepted ==
    (args # Nil /\ args.apiKey \in {QuickStartKey, TestingKey}
                /\ args.options = <<>>)
        => (client # Nil /\ err = Nil)

\* C4: with no options the base URL is "https://api.shopsavvy.com/v1" and the
\* timeout 30 seconds; WithBaseURL and WithTimeout each replace exactly their
\* own field, the other field and the API key stay as they would be.
C4_DefaultsAndOptions ==
    (args # Nil /\ client # Nil /\ KeepsKey(args.options)) =>
        /\ args.options = <<>> =>
              /\ client.client.BaseURL = "https://api.shopsavvy.com/v1"
              /\ client.client.Timeout = 30
        /\ client.config.APIKey = args.apiKey
        /\ client.config.BaseURL =
              LastSet(args.options, "BaseURL", "https://api.shopsavvy.com/v1")
        /\ client.config.Timeout = LastSet(args.options, "Timeout", 30)
        /\ client.client.BaseURL = client.config.BaseURL
        /\ client.client.Timeout = client.config.Timeout

C4_Witness ==
    /\ args # Nil
    /\ args.apiKey = ScenarioKey
    /\ args.options = <<WithTimeout(60)>>
    /\ client # Nil
    /\ client.client.Timeout = 60
    /\ client.client.BaseURL = DefaultBaseURL

\* C21: NewClient applies all options in argument order before validating
\* the key: of several options setting one field the last wins, and the key
\* that is validated and sent in the Authorization header is the
\* Config.APIKey left after all options ran; with only WithBaseURL and
\* WithTimeout that is the apiKey argument, and an empty key is reported by
\* the 'API key is required' error, not by the format error.
C21_OptionsBeforeValidation ==
    args # Nil =>
        LET key == LastSet(args.options, "APIKey", args.apiKey)
        IN  /\ KeepsKey(args.options) => key = args.apiKey
            /\ key = <<>> => (client = Nil /\ err = ErrKeyRequired)
            /\ (key # <<>> /\ ~MatchString(key)) =>
                  (client = Nil /\ err = ErrKeyFormat)
            /\ (key # <<>> /\ MatchString(key)) =>
                  /\ err = Nil
                  /\ client # Nil
                  /\ client.config.APIKey = key
                  /\ client.config.BaseURL =
                        LastSet(args.options, "BaseURL", DefaultBaseURL)
                  /\ client.config.Timeout =
                        LastSet(args.options, "Timeout", DefaultTimeout)
                  /\ client.client.Header.Authorization = BearerPrefix \o key

C21_Witness ==
    /\ args # Nil
    /\ args.apiKey = <<>>
    /\ args.options = <<CallerOption(<<>>), CallerOption(OtherKey)>>
    /\ err = Nil
    /\ client # Nil
    /\ client.config.APIKey = OtherKey
    /\ client.client.Header.Authorization = BearerPrefix \o OtherKey

(***************************************************************************)
(* Properties of the error mapping (checked under SpecErrorMapping)        *)
(***************************************************************************)
\* the error kind the table of statuses names
KindOfStatus(status) ==
    IF status = 401 THEN "AuthenticationError"
    ELSE IF status = 404 THEN "NotFoundError"
    ELSE IF status = 422 THEN "ValidationError"
    ELSE IF status = 429 THEN "RateLimitError"
    ELSE "APIError"

\* C5: for every body, status 401 yields an AuthenticationError, 404 a
\* NotFoundError, 422 a ValidationError, 429 a RateLimitError and every other
\* non-2xx status an APIError, and the error carries the response's status.
C5_KindFollowsStatus ==
    mapped # Nil =>
        /\ mapped.kind = KindOfStatus(resp.status)
        /\ mapped.StatusCode = resp.status

C5_Witness ==
    /\ mapped # Nil
    /\ resp.status = 422
    /\ resp.body = ErrorBody("Internal failure")
    /\ mapped.kind = "ValidationError"

\* C6: when the error body parses and has a non-empty `error` field, the
\* message of the resulting error equals that field, whichever kind the
\* status selects.
C6_MessageFromBody ==
    (mapped # Nil /\ resp.body.json /\ resp.body.parses /\ resp.body.error # "")
        => mapped.Message = resp.body.error

\* C7: when the error body is absent, unparsable or has an empty `error`
\* field, the message of the resulting error is "HTTP <code>: <reason
\* phrase>", whichever kind the status selects.
C7_FallbackMessage ==
    (mapped # Nil
        /\ (~resp.body.json \/ ~resp.body.parses \/ resp.body.error = ""))
        => mapped.Message =
               "HTTP " \o ToString(resp.status) \o ": " \o StatusText(resp.status)

(***************************************************************************)
(* Properties of the endpoint methods (checked under Spec)                 *)
(***************************************************************************)
TypedErrorKinds ==
    {"AuthenticationError", "NotFoundError", "ValidationError",
     "RateLimitError", "APIError", "NetworkError", "TimeoutError"}

\* C8: a call that fails with no HTTP response returns a NetworkError, a
\* TimeoutError when the deadline was exceeded, so that the error is one of
\* the seven typed error kinds.
C8_TransportFailureTyped ==
    (call # Nil /\ call.outcome.transport = "failed") =>
        /\ call.err # Nil
        /\ call.err.kind \in TypedErrorKinds
        /\ call.err.kind = IF call.outcome.timeout THEN "TimeoutError"
                           ELSE "NetworkError"

\* C9: for every endpoint method and every response whose status is not 2xx,
\* 1xx and 3xx included, the method returns a non-nil error mapped from that
\* status and no envelope.
C9_Non2xxIsError ==
    (call # Nil /\ call.outcome.transport = "ok"
                /\ ~(call.outcome.status \in 200..299))
        => (/\ call.err # Nil
            /\ call.response = Nil
            /\ call.err.kind = KindOfStatus(call.outcome.status))

VerbOf(method) ==
    IF method \in {"ScheduleProductMonitoring", "ScheduleProductMonitoringBatch"}
    THEN "POST"
    ELSE IF method \in {"RemoveProductFromSchedule", "RemoveProductsFromSchedule"}
    THEN "DELETE"
    ELSE "GET"

\* the documented path of each endpoint method
PathOf(method) ==
    IF method = "SearchProducts" THEN "/products/search"
    ELSE IF method \in {"GetProductDetails", "GetProductDetailsBatch"}
    THEN "/products"
    ELSE IF method \in {"GetCurrentOffers", "GetCurrentOffersBatch"}
    THEN "/products/offers"
    ELSE IF method = "GetPriceHistory" THEN "/products/offers/history"
    ELSE IF method = "GetScheduledProducts" THEN "/products/scheduled"
    ELSE IF method = "GetUsage" THEN "/usage"
    ELSE "/products/schedule"

\* C11: each endpoint method uses the documented verb and path; reads carry
\* their parameters in the query string and no body, schedule and removal
\* calls carry them in the body and no query parameter.
C11_VerbAndPath ==
    call # Nil =>
        LET rq == call.request
        IN  /\ rq.Method = VerbOf(call.method)
            /\ rq.URL = client.config.BaseURL \o PathOf(call.method)
            /\ rq.Method = "GET" =>
                  /\ rq.Body = Nil
                  /\ call.input # Nil => DOMAIN rq.QueryParams # {}
            /\ rq.Method \in {"POST", "DELETE"} =>
                  /\ DOMAIN rq.QueryParams = {}
                  /\ rq.Body # Nil
                  /\ \E k \in {"identifier", "identifiers"} : k \in DOMAIN rq.Body

C11_Witness ==
    /\ call # Nil
    /\ call.method = "RemoveProductFromSchedule"
    /\ call.request.Method = "DELETE"
    /\ call.request.URL = "http://localhost:8080/products/schedule"
    /\ call.request.Body = [identifier |-> "B08N5WRWNW"]

BatchMethods ==
    {"GetProductDetailsBatch", "GetCurrentOffersBatch",
     "ScheduleProductMonitoringBatch", "RemoveProductsFromSchedule"}

\* the elements in order, a "," between each two
RECURSIVE CommaSeparated(_)
CommaSeparated(ids) ==
    IF Len(ids) = 0 THEN ""
    ELSE IF Len(ids) = 1 THEN ids[1]
    ELSE CommaSeparated(SubSeq(ids, 1, Len(ids) - 1)) \o "," \o ids[Len(ids)]

\* C12: every batch method sends a single identifier parameter whose value is
\* the identifiers joined by "," in input order, nothing reordered, dropped
\* or deduplicated; for no identifiers the parameter is "" and the request is
\* still sent.
C12_BatchJoin ==
    (call # Nil /\ call.method \in BatchMethods) =>
        LET rq == call.request
            params == IF rq.Method = "GET" THEN rq.QueryParams ELSE rq.Body
            key == IF rq.Method = "GET" THEN "ids" ELSE "identifiers"
        IN  /\ key \in DOMAIN params
            /\ params[key] = CommaSeparated(call.input.identifiers)
            /\ DOMAIN params \cap {"ids", "identifier", "identifiers"} = {key}
            /\ httpRequests >= 1

C12_Witness ==
    /\ call # Nil
    /\ call.method = "ScheduleProductMonitoringBatch"
    /\ call.input.identifiers = <<"B08N5WRWNW", "012345678901">>
    /\ call.request.Body.identifiers = "B08N5WRWNW,012345678901"

C14_ConfigImmutable == [][client # Nil => client' = client]_vars

C14_Witness ==
    /\ calls = 2
    /\ call # Nil
    /\ call.err # Nil
    /\ client # Nil
    /\ client.config =
          [APIKey |-> OtherKey, BaseURL |-> "http://localhost:8080",
           Timeout |-> 60]
    /\ client.client.BaseURL = "http://localhost:8080"
    /\ client.client.Timeout = 60

\* C16: every endpoint method returns either a non-nil result with a nil
\* error or a nil result with a non-nil error, never both and never neither.
C16_ResultOrError ==
    call # Nil =>
        \/ call.response # Nil /\ call.err = Nil
        \/ call.response = Nil /\ call.err # Nil

C16_Witness ==
    /\ call # Nil
    /\ call.outcome = Response(500, DataBody)
    /\ call.response = Nil
    /\ call.err # Nil

FormatMethods ==
    {"GetProductDetails", "GetProductDetailsBatch", "GetCurrentOffers",
     "GetCurrentOffersBatch", "GetPriceHistory"}

\* the request the same call builds when no format is given
WithoutFormat(c) ==
    LET in == c.input
    IN  CASE c.method = "GetProductDetails" ->
               GetProductDetailsRequest(client, in.identifier, <<>>)
          [] c.method = "GetProductDetailsBatch" ->
               GetProductDetailsBatchRequest(client, in.identifiers, <<>>)
          [] c.method = "GetCurrentOffers" ->
               GetCurrentOffersRequest(client, in.identifier, in.retailer, <<>>)
          [] c.method = "GetCurrentOffersBatch" ->
               GetCurrentOffersBatchRequest(client, in.identifiers, in.retailer,
                                            <<>>)
          [] c.method = "GetPriceHistory" ->
               GetPriceHistoryRequest(client, in.identifier, in.startDate,
                                      in.endDate, in.retailer, <<>>)

\* the request is the one without format, with the parameter format = value
SameButFormat(c, value) ==
    LET rq == c.request
        plain == WithoutFormat(c)
    IN  /\ "format" \in DOMAIN rq.QueryParams
        /\ rq.QueryParams["format"] = value
        /\ rq.Method = plain.Method
        /\ rq.URL = plain.URL
        /\ rq.Body = plain.Body
        /\ rq.Header = plain.Header
        /\ DOMAIN rq.QueryParams = DOMAIN plain.QueryParams \cup {"format"}
        /\ \A k \in DOMAIN plain.QueryParams :
              rq.QueryParams[k] = plain.QueryParams[k]

\* C17 as stated: when a format is provided, the request carries the query
\* parameter format equal to the provided value, and verb, path and the other
\* parameters are the same as without it.
C17_AsStated ==
    (call # Nil /\ call.method \in FormatMethods /\ Len(call.input.format) > 0)
        => SameButFormat(call, call.input.format[1])

\* C17 amended: when a non-empty format is provided, the request carries the
\* query parameter format equal to the (first) provided value, and verb,
\* path and the other parameters are the same as without it; an empty format
\* is treated as none and no format parameter is sent.
C17_FormatPassedThrough ==
    (call # Nil /\ call.method \in FormatMethods) =>
        IF Len(call.input.format) > 0 /\ call.input.format[1] # ""
        THEN SameButFormat(call, call.input.format[1])
        ELSE call.request = WithoutFormat(call)

C17_Witness ==
    /\ call # Nil
    /\ call.method = "GetPriceHistory"
    /\ call.input.format = <<"csv", "json">>
    /\ call.input.retailer = "amazon"
    /\ call.request.QueryParams =
          [ids |-> "012345678901", start_date |-> "2024-01-01",
           end_date |-> "2024-01-31", retailer |-> "amazon", format |-> "csv"]

DigitChars == <<"0","1","2","3","4","5","6","7","8","9">>

\* the decimal numeral of a natural number
RECURSIVE Decimal(_)
Decimal(n) ==
    IF n < 10 THEN DigitChars[n + 1]
    ELSE Decimal(n \div 10) \o DigitChars[(n % 10) + 1]

\* C19: SearchProducts always sends q equal to the query, also when empty;
\* it sends limit only when limit > 0 and offset only when offset > 0, each
\* as the decimal value of the argument; a zero or negative limit or offset
\* is omitted, not sent and not rejected.
C19_SearchParams ==
    (call # Nil /\ call.method = "SearchProducts") =>
        LET q == call.request.QueryParams
            in == call.input
        IN  /\ "q" \in DOMAIN q
            /\ q["q"] = in.query
            /\ ("limit" \in DOMAIN q) <=> (in.limit > 0)
            /\ ("offset" \in DOMAIN q) <=> (in.offset > 0)
            /\ in.limit > 0 => q["limit"] = Decimal(in.limit)
            /\ in.offset > 0 => q["offset"] = Decimal(in.offset)
            /\ DOMAIN q \subseteq {"q", "limit", "offset"}
            /\ httpRequests >= 1

C19_Witness ==
    /\ call # Nil
    /\ call.method = "SearchProducts"
    /\ call.input = [query |-> "", limit |-> 0, offset |-> 120]
    /\ call.request.QueryParams = [q |-> "", offset |-> "120"]

RequestOf(c, method, input) ==
    CASE method = "GetProductDetails" ->
           GetProductDetailsRequest(c, input.identifier, input.format)
      [] method = "ScheduleProductMonitoring" ->
           ScheduleProductMonitoringRequest(c, input.identifier,
                                            input.frequency, input.retailer)
      [] method = "GetUsage" -> GetUsageRequest(c)

\* C15: under every interleaving of concurrent calls on one client, each
\* call sends the request built from its own arguments and the
\* configuration and returns the result or error of its own response.
C15_CallsIndependent ==
    \A g \in Goroutines :
        inflight[g] # Nil =>
            LET f == inflight[g]
                own == Return(Execute(client, f.outcome))
            IN  /\ f.request = RequestOf(client, f.method, f.input)
                /\ f.phase = "done" =>
                      f.response = own.response /\ f.err = own.err
                /\ f.phase # "done" => f.response = Nil /\ f.err = Nil

C15_Witness ==
    /\ inflight[1] # Nil
    /\ inflight[2] # Nil
    /\ inflight[1].phase = "done"
    /\ inflight[2].phase = "done"
    /\ inflight[1].method = "GetProductDetails"
    /\ inflight[2].method = "GetProductDetails"
    /\ inflight[1].input.identifier = "012345678901"
    /\ inflight[2].input.identifier = "B08N5WRWNW"
    /\ inflight[1].outcome = Response(429, ErrorBody("too many requests"))
    /\ inflight[2].outcome = Response(200, DataBody)
    /\ inflight[1].err # Nil
    /\ inflight[1].err.kind = "RateLimitError"
    /\ inflight[2].err = Nil
    /\ inflight[2].response = [Success |-> TRUE, Data |-> "payload"]

(***************************************************************************)
(* Properties of the payload types (checked under SpecRoundTrip)           *)
(***************************************************************************)
\* C18: for every payload type and every value of it, serializing to JSON
\* and deserializing back yields a value equal to the original field for
\* field, including absent optional fields, present-but-empty strings, and
\* empty versus absent lists.
C18_RoundTrip ==
    (roundTrip # Nil /\ roundTrip.decoded # Nil) =>
        roundTrip.decoded = roundTrip.value

====
